---- MODULE Spec2Model ----
(***************************************************************************)
(* BatchQuery Chatbot: the client page (BatchQueryChatbot), its image      *)
(* intake component (ImageUpload) and the requests it keeps in flight.     *)
(*                                                                         *)
(* Strings the code computes on (query text, MIME types) are sequences of  *)
(* one-character strings, so that trim, length and startsWith are          *)
(* computed as the code computes them.  Messages shown to the user are     *)
(* sequences of string pieces, one piece per literal or interpolated       *)
(* value of the template the code builds them from; null is the empty      *)
(* sequence.                                                               *)
(*                                                                         *)
(* React state: an event handler reads the state of the render it was      *)
(* created in.  A handler that runs to completion inside one event reads   *)
(* the current state; an async handler keeps its render's values across    *)
(* every await, so the values it closed over are stored with the           *)
(* suspended invocation (uploads[..].images, requests[..].images).         *)
(***************************************************************************)
EXTENDS Integers, Sequences, FiniteSets, TLC

VARIABLES
    images,        \* BatchQueryChatbot: useState<UploadedImage[]>
    query,         \* BatchQueryChatbot: useState("")
    messages,      \* BatchQueryChatbot: useState<ChatMessage[]>
    isProcessing,  \* BatchQueryChatbot: useState(false)
    error,         \* BatchQueryChatbot: useState<string | null>
    upImages,      \* ImageUpload: useState<UploadedImage[]>
    uploadError,   \* ImageUpload: useState<string | null>
    toasts,        \* the toast() calls of the handler step taken last
    uploads,       \* suspended handleFiles invocations (awaiting fileToBase64)
    requests,      \* suspended handleSendQuery invocations (awaiting fetch / json)
    nextId,        \* number of image identifiers generated so far
    posts,         \* analysis endpoint: the invocations of POST, in order of arrival
    generated,     \* the last application of generateFallbackResponse
    validated      \* the last application of validateFile

vars == <<images, query, messages, isProcessing, error, upImages, uploadError,
          toasts, uploads, requests, nextId, posts, generated, validated>>

\* the state of the analysis endpoint
server == <<posts, generated>>

\* the state of the page
client == <<images, query, messages, isProcessing, error, upImages, uploadError,
            toasts, uploads, requests, nextId>>

-----------------------------------------------------------------------------
(* Bounds of the model *)

\* ImageUpload on its own: identifiers (images) generated in one session
MaxIds == 5
\* ImageUpload on its own: handleFiles invocations suspended at the same time
MaxUploads == 2
\* the page: identifiers (images) generated in one session
PageIds == 1
\* the page: handleFiles invocations suspended at the same time
PageUploads == 1
\* the page: sends in one session
MaxSends == 2
\* the endpoint: requests received in one exploration
MaxPosts == 2
\* generateFallbackResponse: the largest image count it is applied to
MaxImageCount == 10

(* Program constants *)

\* <ImageUpload onImagesChange={setImages} maxImages={4} />
maxImages == 4
\* <Input ... maxLength={500} />
maxLength == 500

Null == <<>>

-----------------------------------------------------------------------------
(* Strings *)

Chars(n, c) == [i \in 1..n |-> c]

IsSpace(c) == c \in {" ", "\t", "\n"}

RECURSIVE TrimStart(_)
TrimStart(s) ==
    IF s # <<>> /\ IsSpace(Head(s)) THEN TrimStart(Tail(s)) ELSE s

RECURSIVE TrimEnd(_)
TrimEnd(s) ==
    IF s # <<>> /\ IsSpace(s[Len(s)]) THEN TrimEnd(SubSeq(s, 1, Len(s) - 1)) ELSE s

\* String.prototype.trim
Trim(s) == TrimEnd(TrimStart(s))

\* String.prototype.startsWith
StartsWith(s, p) == Len(s) >= Len(p) /\ SubSeq(s, 1, Len(p)) = p

Digit(d) == <<"0", "1", "2", "3", "4", "5", "6", "7", "8", "9">>[d + 1]

\* a non-negative integer interpolated into a template string
RECURSIVE DecStr(_)
DecStr(n) == IF n < 10 THEN Digit(n) ELSE DecStr(n \div 10) \o Digit(n % 10)

\* (bytes / 1024 / 1024).toFixed(1)
MBFixed1(bytes) ==
    LET tenths == (bytes * 20 + 1024 * 1024) \div (2 * 1024 * 1024)
    IN  DecStr(tenths \div 10) \o "." \o Digit(tenths % 10)

Plural(n) == IF n # 1 THEN "s" ELSE ""

-----------------------------------------------------------------------------
(* Files the user can pick or drop *)

ImagePrefix == <<"i", "m", "a", "g", "e", "/">>
TypeJpeg == ImagePrefix \o <<"j", "p", "e", "g">>
TypeJpg  == ImagePrefix \o <<"j", "p", "g">>
TypePng  == ImagePrefix \o <<"p", "n", "g">>
TypeGif  == ImagePrefix \o <<"g", "i", "f">>
TypeWebp == ImagePrefix \o <<"w", "e", "b", "p">>
TypeBmp  == ImagePrefix \o <<"b", "m", "p">>
TypePdf  == <<"a", "p", "p", "l", "i", "c", "a", "t", "i", "o", "n", "/", "p", "d", "f">>
TypeSvg  == ImagePrefix \o <<"s", "v", "g", "+", "x", "m", "l">>
TypeTiff == ImagePrefix \o <<"t", "i", "f", "f">>
TypeImage == ImagePrefix
TypeUpperPng == <<"I", "M", "A", "G", "E", "/", "P", "N", "G">>
TypeText == <<"t", "e", "x", "t", "/", "p", "l", "a", "i", "n">>
TypeVideo == <<"v", "i", "d", "e", "o", "/", "m", "p", "4">>
TypeUnknown == <<>>

\* a File: its name, MIME type, size in bytes and content
File(name, type, size, bytes) ==
    [name |-> name, type |-> type, size |-> size, bytes |-> bytes]

FileA   == File("a.png", TypePng, 2048, "A")
FileB   == File("b.jpg", TypeJpeg, 10 * 1024 * 1024, "B")
FileBig == File("big.png", TypePng, 10 * 1024 * 1024 + 1, "G")
FileBmp == File("c.bmp", TypeBmp, 4096, "C")
FilePdf == File("d.pdf", TypePdf, 4096, "D")

\* the FileLists of the change and drop events, on the page
PageFileLists ==
    { <<>>,
      <<FileA>>,
      <<FileBig, FileA>> }

\* the FileLists and query texts of the page's failures: a batch with a file
\* that fails validation, and one that fails whole
FailureFileLists ==
    { <<FileA>>,
      <<FileBig, FileA>>,
      <<FilePdf, FileBmp, FileBig, FilePdf>> }

\* the image lists and query texts handleSendQuery is tried on
Img(id, file) ==
    [id |-> id, file |-> file, name |-> file.name,
     url |-> [scheme |-> "data", mediatype |-> file.type, base64 |-> file.bytes]]

SendImageLists ==
    { <<>>,
      <<Img(1, FileA)>>,
      <<Img(1, FileA), Img(2, FileB)>>,
      <<Img(1, FileB), Img(2, FileA), Img(3, FileA), Img(4, FileB)>>,
      <<Img(1, FileA), Img(2, FileA), Img(3, FileA), Img(4, FileA), Img(5, FileA)>>,
      <<Img(1, FileA), Img(2, FileBig)>>,
      <<Img(1, FileBig), Img(2, FileB), Img(3, File("huge.gif", TypeGif, 11 * 1024 * 1024, "H"))>> }

\* the FileLists of the change and drop events, for ImageUpload on its own
FileLists ==
    { <<>>,
      <<FileA>>,
      <<FileA, FileB>>,
      <<FileBmp>>,
      <<FilePdf, FileBig, FileA>> }

\* the FileLists of several files, and of a file that fails validation alone
BatchLists ==
    { <<FileA, FileB>>,
      <<FileBmp>>,
      <<FilePdf, FileBig, FileA>> }

-----------------------------------------------------------------------------
(* ImageUpload *)

\* validateFile without the check of the supported formats
validateFileAnyImage(file) ==
    IF ~StartsWith(file.type, ImagePrefix)
    THEN <<file.name, " is not a valid image file">>
    ELSE IF file.size > 10 * 1024 * 1024
    THEN <<file.name, " is too large (", MBFixed1(file.size), "MB). Maximum size is 10MB">>
    ELSE Null

\* validateFile refusing a file of the maximum size
validateFileBelowMax(file) ==
    IF ~StartsWith(file.type, ImagePrefix)
    THEN <<file.name, " is not a valid image file">>
    ELSE IF file.size >= 10 * 1024 * 1024
    THEN <<file.name, " is too large (", MBFixed1(file.size), "MB). Maximum size is 10MB">>
    ELSE IF file.type \notin {TypeJpeg, TypeJpg, TypePng, TypeGif, TypeWebp}
    THEN <<file.name, " format not supported. Please use JPG, PNG, GIF, or WebP">>
    ELSE Null

validateFile(file) ==
    IF ~StartsWith(file.type, ImagePrefix)
    THEN <<file.name, " is not a valid image file">>
    ELSE LET maxSize == 10 * 1024 * 1024
             supportedTypes == {TypeJpeg, TypeJpg, TypePng, TypeGif, TypeWebp}
         IN  IF file.size > maxSize
             THEN <<file.name, " is too large (", MBFixed1(file.size),
                    "MB). Maximum size is 10MB">>
             ELSE IF file.type \notin supportedTypes
             THEN <<file.name, " format not supported. Please use JPG, PNG, GIF, or WebP">>
             ELSE Null

\* the MIME types and sizes of the files validateFile is tried on
FileTypes ==
    { TypeJpeg, TypeJpg, TypePng, TypeGif, TypeWebp, TypeBmp, TypeSvg, TypeTiff,
      TypeImage, TypeUpperPng, TypePdf, TypeText, TypeVideo, TypeUnknown }

FileSizes ==
    { 0, 1, 2048, 10 * 1024 * 1024 - 1, 10 * 1024 * 1024, 10 * 1024 * 1024 + 1,
      11 * 1024 * 1024, 25 * 1024 * 1024 }

\* validateFile applied to a file
applyValidate ==
    /\ \E type \in FileTypes, size \in FileSizes :
           LET file == File("photo", type, size, "P")
           IN  validated' = [file |-> file, validationError |-> validateFile(file)]
    /\ UNCHANGED <<client, server>>

\* reader.result of readAsDataURL(file): the file's type and its bytes, base64
DataUrl(file) == [scheme |-> "data", mediatype |-> file.type, base64 |-> file.bytes]

\* { id, file, url: base64Url, name: file.name }
UploadedImage(id, file, url) == [id |-> id, file |-> file, url |-> url, name |-> file.name]

\* toast({ title, description, variant })
Toast(title, description, variant) ==
    <<[title |-> title, description |-> description, variant |-> variant]>>

\* the page not told of the new list
onImagesChangeUnheard(updatedList) == UNCHANGED images

\* <ImageUpload onImagesChange={setImages} />
onImagesChange(updatedList) == images' = updatedList

\* remainingSlots without the images already held
remainingSlotsOfEmpty(held) == maxImages

\* const remainingSlots = maxImages - images.length
remainingSlots(held) == maxImages - Len(held)

\* the capacity check with >= for >
overCapacityOrFull(files, held) == Len(files) >= maxImages - Len(held)

\* if (files.length > remainingSlots)
overCapacity(files, held) == Len(files) > remainingSlots(held)

\* the for loop of handleFiles from file k on, up to its next await: a file that
\* fails validation adds its error and the loop continues
RECURSIVE LoopFrom(_, _, _)
LoopFrom(files, k, errors) ==
    IF k > Len(files) THEN [k |-> k, errors |-> errors]
    ELSE LET validationError == validateFile(files[k])
         IN  IF validationError # Null
             THEN LoopFrom(files, k + 1, Append(errors, validationError))
             ELSE [k |-> k, errors |-> errors]

\* the new images appended to the images held now, not to those of the render
updatedImagesFromCurrent(held, newImages) == upImages \o newImages

\* const updatedImages = [...images, ...newImages]
updatedImages(held, newImages) == held \o newImages

\* no error shown
NoError(errors) == Null

\* the last error shown for the first
LastError(errors) == errors[Len(errors)]

\* setUploadError(errors[0])
FirstError(errors) == errors[1]

\* handleFiles from the point where invocation u (its loop advanced to u.k) either
\* suspends at `await fileToBase64(file)` or leaves the loop and reports;
\* rest: the other suspended invocations; ue: uploadError as the invocation
\* leaves it when it reports no error
Proceed(u, rest, ue) ==
    IF u.k <= Len(u.files)
    THEN /\ nextId' = nextId + 1
         /\ uploads' = rest \cup {[u EXCEPT !.id = nextId + 1]}
         /\ uploadError' = ue
         /\ toasts' = <<>>
         /\ UNCHANGED <<images, upImages>>
    ELSE /\ uploads' = rest
         /\ UNCHANGED nextId
         /\ IF Len(u.errors) > 0
            THEN /\ uploadError' = FirstError(u.errors)
                 /\ toasts' = Toast("Upload Error",
                                    <<DecStr(Len(u.errors)), " file", Plural(Len(u.errors)),
                                      " could not be uploaded">>, "destructive")
                 /\ UNCHANGED <<images, upImages>>
            ELSE IF Len(u.newImages) > 0
            THEN /\ upImages' = updatedImages(u.images, u.newImages)
                 /\ onImagesChange(updatedImages(u.images, u.newImages))
                 /\ uploadError' = ue
                 /\ toasts' = Toast("Upload Successful",
                                    <<DecStr(Len(u.newImages)), " image",
                                      Plural(Len(u.newImages)), " uploaded successfully">>,
                                    "default")
            ELSE /\ uploadError' = ue
                 /\ toasts' = <<>>
                 /\ UNCHANGED <<images, upImages>>

\* the files of `files` after the k-th that pass validation: each will take an
\* identifier
ValidAfter(files, k) ==
    Cardinality({i \in (k + 1)..Len(files) : validateFile(files[i]) = Null})

\* identifiers the suspended invocations will still generate
RECURSIVE Reserved(_)
Reserved(S) ==
    IF S = {} THEN 0
    ELSE LET u == CHOOSE x \in S : TRUE
         IN  ValidAfter(u.files, u.k) + Reserved(S \ {u})

\* handleFiles(files), up to its first await or, without one, to its end.
\* A suspended invocation keeps the images of its render, its position k in
\* files, the identifier generated for files[k], newImages and errors; unreadable
\* records the files whose encoding failed
handleFiles(files) ==
    /\ UNCHANGED <<query, messages, isProcessing, error, requests>>
    /\ UNCHANGED <<server, validated>>
    /\ LET u == [images |-> upImages, files |-> files, k |-> 1, id |-> 0,
                 newImages |-> <<>>, errors |-> <<>>, unreadable |-> {}]
       IN  IF overCapacity(files, upImages)
           THEN /\ uploadError' = <<"Can only upload ", DecStr(remainingSlots(upImages)),
                                    " more image", Plural(remainingSlots(upImages))>>
                /\ toasts' = <<>>
                /\ UNCHANGED <<images, upImages, uploads, nextId>>
           ELSE LET at == LoopFrom(files, 1, <<>>)
                IN  Proceed([u EXCEPT !.k = at.k, !.errors = at.errors],
                            uploads, Null)

\* the exploration keeps at most `ups` invocations suspended and generates at
\* most `ids` identifiers: an invocation starts only if it can run to its end
Room(ids, ups, files) ==
    /\ Cardinality(uploads) < ups
    /\ nextId + Reserved(uploads) + ValidAfter(files, 0) <= ids

\* <input type="file" onChange={handleFileInput} disabled={images.length >= maxImages}>
handleFileInput(lists, ids, ups) ==
    /\ ~(Len(upImages) >= maxImages)
    /\ \E files \in lists : Room(ids, ups, files) /\ handleFiles(files)

\* onDrop={handleDrop}: if (e.dataTransfer.files && e.dataTransfer.files[0])
handleDrop(lists, ids, ups) ==
    \E files \in lists :
        /\ Len(files) > 0
        /\ Room(ids, ups, files)
        /\ handleFiles(files)

\* reader.onload: the await of invocation u resolves with the data URL; the
\* image is pushed and the loop goes on
resolveFileToBase64(u) ==
    /\ u \in uploads
    /\ UNCHANGED <<query, messages, isProcessing, error, requests>>
    /\ UNCHANGED <<server, validated>>
    /\ LET img == UploadedImage(u.id, u.files[u.k], DataUrl(u.files[u.k]))
           at == LoopFrom(u.files, u.k + 1, u.errors)
       IN  Proceed([u EXCEPT !.newImages = Append(@, img),
                             !.k = at.k, !.errors = at.errors],
                   uploads \ {u}, uploadError)

\* reader.onerror: the await of invocation u rejects; the catch block pushes an
\* error and the loop goes on
rejectFileToBase64(u) ==
    /\ u \in uploads
    /\ UNCHANGED <<query, messages, isProcessing, error, requests>>
    /\ UNCHANGED <<server, validated>>
    /\ LET failed == <<"Failed to process ", u.files[u.k].name>>
           at == LoopFrom(u.files, u.k + 1, Append(u.errors, failed))
       IN  Proceed([u EXCEPT !.k = at.k, !.errors = at.errors,
                             !.unreadable = @ \cup {u.k}],
                   uploads \ {u}, uploadError)

readerOnload == \E u \in uploads : resolveFileToBase64(u)

readerOnerror == \E u \in uploads : rejectFileToBase64(u)

\* the first image dropped, whatever the identifier
WithoutFirst(held, id) == IF held = <<>> THEN <<>> ELSE Tail(held)

\* images.filter((img) => img.id !== id)
RECURSIVE Without(_, _)
Without(held, id) ==
    IF held = <<>> THEN <<>>
    ELSE IF Head(held).id = id THEN Without(Tail(held), id)
    ELSE <<Head(held)>> \o Without(Tail(held), id)

removeImage(id) ==
    /\ upImages' = Without(upImages, id)
    /\ onImagesChange(Without(upImages, id))
    /\ uploadError' = Null
    /\ toasts' = Toast("Image Removed", <<"Image has been removed from upload">>, "default")
    /\ UNCHANGED <<query, messages, isProcessing, error, uploads, requests, nextId>>
    /\ UNCHANGED <<server, validated>>

\* the X button of a displayed image: onClick={() => removeImage(image.id)}
clickRemove == \E i \in 1..Len(upImages) : removeImage(upImages[i].id)

\* images.reduce((total, img) => total + img.file.size, 0)
RECURSIVE totalSize(_)
totalSize(held) ==
    IF held = <<>> THEN 0 ELSE Head(held).file.size + totalSize(Tail(held))

\* Clear All resetting the page as well
clearAllAndPage ==
    /\ Len(upImages) > 0
    /\ upImages' = <<>>
    /\ images' = <<>>
    /\ uploadError' = Null
    /\ toasts' = Toast("Images Cleared", <<"All images have been removed">>, "default")
    /\ messages' = <<>>
    /\ query' = <<>>
    /\ UNCHANGED <<isProcessing, error, uploads, requests, nextId>>
    /\ UNCHANGED <<server, validated>>

\* the Clear All button, rendered when images.length > 0
clearAll ==
    /\ Len(upImages) > 0
    /\ upImages' = <<>>
    /\ onImagesChange(<<>>)
    /\ uploadError' = Null
    /\ toasts' = Toast("Images Cleared", <<"All images have been removed">>, "default")
    /\ UNCHANGED <<query, messages, isProcessing, error, uploads, requests, nextId>>
    /\ UNCHANGED <<server, validated>>

-----------------------------------------------------------------------------
(* BatchQueryChatbot *)

QEmpty   == <<>>
QBlank   == <<" ", " ", " ", " ">>
QShort   == <<"a", "b">>
QPadded  == <<"a", " ", " ">>
QColors  == <<"W", "h", "a", "t", " ", "c", "o", "l", "o", "r", "s", "?">>
QLongest == Chars(500, "a")
QTooLong == Chars(501, "a")

\* the texts the user can bring into the query input
Queries == {QEmpty, QPadded, QColors}

\* the query texts of the page's failures
FailureQueries == {QEmpty, QColors}

SendQueries == {QEmpty, QBlank, QShort, QPadded, QColors, QLongest, QTooLong}

validateQuery(queryText) ==
    IF Trim(queryText) = <<>>
    THEN <<"Please enter a question about your images">>
    ELSE IF Len(queryText) < 3
    THEN <<"Query must be at least 3 characters long">>
    ELSE IF Len(queryText) > 500
    THEN <<"Query must be less than 500 characters">>
    ELSE Null

\* oversizedImages.map((img) => img.name).join(", ")
RECURSIVE JoinNames(_)
JoinNames(imgs) ==
    IF imgs = <<>> THEN <<>>
    ELSE IF Len(imgs) = 1 THEN <<imgs[1].name>>
    ELSE <<imgs[1].name, ", ">> \o JoinNames(Tail(imgs))

\* validateImages without the check for an empty list
validateImagesOfSome(imageList) ==
    IF Len(imageList) > 4
    THEN <<"Maximum 4 images allowed">>
    ELSE LET oversizedImages ==
                 SelectSeq(imageList, LAMBDA img : img.file.size > 10 * 1024 * 1024)
         IN  IF Len(oversizedImages) > 0
             THEN <<"Image(s) too large: ">> \o JoinNames(oversizedImages)
                      \o <<". Maximum size is 10MB per image.">>
             ELSE Null

validateImages(imageList) ==
    IF Len(imageList) = 0
    THEN <<"Please upload at least one image before asking a question">>
    ELSE IF Len(imageList) > 4
    THEN <<"Maximum 4 images allowed">>
    ELSE LET oversizedImages ==
                 SelectSeq(imageList, LAMBDA img : img.file.size > 10 * 1024 * 1024)
         IN  IF Len(oversizedImages) > 0
             THEN <<"Image(s) too large: ">> \o JoinNames(oversizedImages)
                      \o <<". Maximum size is 10MB per image.">>
             ELSE Null

\* a ChatMessage, without its id and timestamp; images is Null on bot and error
\* messages
ChatMessage(type, content, imgs) == [type |-> type, content |-> content, images |-> imgs]

\* the request body with the first image only
RequestBodyOfFirst(q, imgs) ==
    [query |-> q,
     images |-> [i \in 1..1 |-> [url |-> imgs[i].url, name |-> imgs[i].name]]]

\* JSON.stringify({ query, images: images.map((img) => ({ url: img.url, name: img.name })) })
RequestBody(q, imgs) ==
    [query |-> q,
     images |-> [i \in 1..Len(imgs) |-> [url |-> imgs[i].url, name |-> imgs[i].name]]]

\* handleSendQuery up to `await fetch(...)`, or to its return on a validation error
handleSendQuery ==
    LET queryError == validateQuery(query)
        imageError == validateImages(images)
    IN  /\ toasts' = <<>>
        /\ UNCHANGED <<images, query, upImages, uploadError, uploads, nextId>>
        /\ UNCHANGED <<server, validated>>
        /\ IF queryError # Null
           THEN /\ error' = queryError
                /\ UNCHANGED <<messages, isProcessing, requests>>
           ELSE IF imageError # Null
           THEN /\ error' = imageError
                /\ UNCHANGED <<messages, isProcessing, requests>>
           ELSE /\ error' = Null
                /\ messages' = Append(messages, ChatMessage("user", query, images))
                /\ isProcessing' = TRUE
                /\ requests' = Append(requests,
                                      [query |-> query, images |-> images, pc |-> "fetch",
                                       body |-> RequestBody(query, images),
                                       response |-> Null])

\* the button left enabled while a query is processed
SendButtonEnabledInFlight == Trim(query) = <<>> \/ Len(images) = 0

\* <Button onClick={handleSendQuery}
\*         disabled={!query.trim() || images.length === 0 || isProcessing}>
SendButtonDisabled == Trim(query) = <<>> \/ Len(images) = 0 \/ isProcessing

\* the input left enabled while a query is processed
InputNeverDisabled == FALSE

\* <Input onKeyPress={handleKeyPress} disabled={isProcessing}>
InputDisabled == isProcessing

clickSend ==
    /\ ~SendButtonDisabled
    /\ handleSendQuery

\* handleKeyPress: Enter without Shift
handleKeyPress ==
    /\ ~InputDisabled
    /\ handleSendQuery

\* <Input onChange=...>: setQuery(e.target.value); if (error) setError(null)
onChange(value) ==
    /\ ~InputDisabled
    /\ Len(value) <= maxLength
    /\ query' = value
    /\ error' = Null
    /\ toasts' = <<>>
    /\ UNCHANGED <<images, messages, isProcessing, upImages, uploadError,
                   uploads, requests, nextId>>
    /\ UNCHANGED <<server, validated>>

\* what the network can answer: response.ok and what response.json() yields
\* (valid: the body parses as JSON; response, error: the fields of the object)
Response(ok, valid, response, err) ==
    [ok |-> ok, valid |-> valid, response |-> response, error |-> err]

Responses ==
    { Response(TRUE, TRUE, <<"Image 1: The dominant colors are warm earth tones.">>, Null),
      Response(FALSE, TRUE, Null, <<"Query and images are required">>),
      Response(FALSE, TRUE, Null, Null),
      Response(FALSE, FALSE, Null, Null),
      Response(TRUE, FALSE, Null, Null) }

\* the exceptions fetch and response.json() reject with
FetchErrors == {[isError |-> TRUE, message |-> <<"Failed to fetch">>]}
JsonError == [isError |-> TRUE, message |-> <<"Unexpected token < in JSON at position 0">>]

\* the default taken whatever the first operand is
OrElseDefault(a, b) == b

\* a || b on strings
OrElse(a, b) == IF a = Null \/ a = <<"">> THEN b ELSE a

RemoveAt(seq, i) == SubSeq(seq, 1, i - 1) \o SubSeq(seq, i + 1, Len(seq))

\* the catch block putting the error entry in the place of the last entry
catchReplacingLast(i, err) ==
    /\ messages' = [messages EXCEPT ![Len(messages)] =
           ChatMessage("error",
                       IF err.isError THEN err.message
                       ELSE <<"An unexpected error occurred. Please try again.">>,
                       Null)]
    /\ toasts' = Toast("Analysis Failed", <<"There was an error processing your request">>,
                       "destructive")
    /\ isProcessing' = FALSE
    /\ requests' = RemoveAt(requests, i)
    /\ UNCHANGED <<images, query, error, upImages, uploadError, uploads, nextId>>
    /\ UNCHANGED <<server, validated>>

\* the catch block without the finally block
catchWithoutFinally(i, err) ==
    /\ messages' = Append(messages,
           ChatMessage("error",
                       IF err.isError THEN err.message
                       ELSE <<"An unexpected error occurred. Please try again.">>,
                       Null))
    /\ toasts' = Toast("Analysis Failed", <<"There was an error processing your request">>,
                       "destructive")
    /\ requests' = RemoveAt(requests, i)
    /\ UNCHANGED <<images, query, error, upImages, uploadError, uploads, nextId>>
    /\ UNCHANGED <<isProcessing, server, validated>>

\* catch (err) { ... } finally { setIsProcessing(false) } of invocation i
catch(i, err) ==
    /\ messages' = Append(messages,
           ChatMessage("error",
                       IF err.isError THEN err.message
                       ELSE <<"An unexpected error occurred. Please try again.">>,
                       Null))
    /\ toasts' = Toast("Analysis Failed", <<"There was an error processing your request">>,
                       "destructive")
    /\ isProcessing' = FALSE
    /\ requests' = RemoveAt(requests, i)
    /\ UNCHANGED <<images, query, error, upImages, uploadError, uploads, nextId>>
    /\ UNCHANGED <<server, validated>>

\* fetch rejects (network error)
fetchRejects ==
    \E i \in 1..Len(requests), err \in FetchErrors :
        /\ requests[i].pc = "fetch"
        /\ catch(i, err)

\* fetch resolves with a response; the handler goes on to `await response.json()`
fetchResolves ==
    \E i \in 1..Len(requests), response \in Responses :
        /\ requests[i].pc = "fetch"
        /\ requests' = [requests EXCEPT ![i].pc = "json", ![i].response = response]
        /\ toasts' = <<>>
        /\ UNCHANGED <<images, query, messages, isProcessing, error, upImages,
                       uploadError, uploads, nextId>>
        /\ UNCHANGED <<server, validated>>

\* response.json() rejects: the body is no JSON
jsonRejects ==
    \E i \in 1..Len(requests) :
        /\ requests[i].pc = "json"
        /\ ~requests[i].response.valid
        /\ catch(i, JsonError)

\* response.json() resolves
jsonResolves ==
    \E i \in 1..Len(requests) :
        LET r == requests[i]
        IN  /\ r.pc = "json"
            /\ r.response.valid
            /\ IF ~r.response.ok
               THEN catch(i, [isError |-> TRUE,
                              message |-> OrElse(r.response.error,
                                                 <<"Failed to analyze images">>)])
               ELSE /\ messages' = Append(messages,
                                          ChatMessage("bot", r.response.response, Null))
                    /\ query' = <<>>
                    /\ toasts' = Toast("Analysis Complete",
                                       <<"Successfully analyzed ", DecStr(Len(r.images)),
                                         " image", IF Len(r.images) > 1 THEN "s" ELSE "">>,
                                       "default")
                    /\ isProcessing' = FALSE
                    /\ requests' = RemoveAt(requests, i)
                    /\ UNCHANGED <<images, error, upImages, uploadError, uploads, nextId>>
                    /\ UNCHANGED <<server, validated>>

-----------------------------------------------------------------------------
(* Analysis endpoint: generateFallbackResponse *)

Alphabet == <<"a", "b", "c", "d", "e", "f", "g", "h", "i", "j", "k", "l", "m",
              "n", "o", "p", "q", "r", "s", "t", "u", "v", "w", "x", "y", "z">>
Capitals == <<"A", "B", "C", "D", "E", "F", "G", "H", "I", "J", "K", "L", "M",
              "N", "O", "P", "Q", "R", "S", "T", "U", "V", "W", "X", "Y", "Z">>

\* the text as it is written
ToLowerCaseKept(s) == s

\* String.prototype.toLowerCase
ToLowerCase(s) ==
    [i \in 1..Len(s) |->
        IF \E j \in 1..26 : Capitals[j] = s[i]
        THEN Alphabet[CHOOSE j \in 1..26 : Capitals[j] = s[i]]
        ELSE s[i]]

\* String.prototype.includes
Includes(s, p) == \E i \in 0..(Len(s) - Len(p)) : SubSeq(s, i + 1, i + Len(p)) = p

KeyCount   == <<"c", "o", "u", "n", "t">>
KeyHowMany == <<"h", "o", "w", " ", "m", "a", "n", "y">>
KeyColor   == <<"c", "o", "l", "o", "r">>
KeyText    == <<"t", "e", "x", "t">>
KeyRead    == <<"r", "e", "a", "d">>

counts == <<3, 5, 2, 4, 1>>

colors ==
    << "vibrant blue and red",
       "warm earth tones",
       "bright yellow and green",
       "soft pastels",
       "monochromatic gray" >>

descriptions ==
    << "This appears to be a well-composed image with clear subject matter.",
       "The image shows good lighting and interesting visual elements.",
       "This image contains multiple objects arranged in an appealing way.",
       "The composition demonstrates good use of space and color balance.",
       "This image has strong visual appeal with clear focal points." >>

\* the cycle that starts at the first element for i = 1
AtModFromFirst(array, i) == array[((i - 1) % Len(array)) + 1]

\* array[i % array.length], the array indexed from 0
AtMod(array, i) == array[(i % Len(array)) + 1]

\* the body of the for loop: the response pushed for image i
response(queryText, i) ==
    LET lower == ToLowerCase(queryText)
    IN  <<"Image ", DecStr(i), ": ">> \o
        (IF Includes(lower, KeyCount) \/ Includes(lower, KeyHowMany)
         THEN <<"I can see ", DecStr(AtMod(counts, i)), " items in this image.">>
         ELSE IF Includes(lower, KeyColor)
         THEN <<"The dominant colors are ", AtMod(colors, i), ".">>
         ELSE IF Includes(lower, KeyText) \/ Includes(lower, KeyRead)
         THEN <<"I can detect some text elements, but would need a valid API connection for detailed text recognition.">>
         ELSE <<AtMod(descriptions, i)>>)

\* responses.join(separator); each response is a sequence of pieces
RECURSIVE Join(_, _)
Join(responses, separator) ==
    IF responses = <<>> THEN <<>>
    ELSE IF Len(responses) = 1 THEN responses[1]
    ELSE responses[1] \o <<separator>> \o Join(Tail(responses), separator)

DemoNote ==
    "\n\n*Note: This is a demo response. Connect a valid OpenAI API key for real AI analysis.*"

generateFallbackResponse(queryText, imageCount) ==
    Join([i \in 1..imageCount |-> response(queryText, i)], "\n\n") \o <<DemoNote>>

-----------------------------------------------------------------------------
(* Analysis endpoint: POST *)

QHowMany     == <<"H", "o", "w", " ", "m", "a", "n", "y", " ", "i", "t", "e", "m", "s", "?">>
QCountColors == <<"C", "o", "u", "n", "t", " ", "t", "h", "e", " ", "c", "o", "l", "o", "r", "s">>
QColorText   == <<"C", "O", "L", "O", "R", " ", "o", "f", " ", "t", "h", "e", " ", "t", "e", "x", "t">>
QRead        == <<"R", "e", "a", "d", " ", "i", "t">>
QText        == <<"W", "h", "a", "t", " ", "t", "e", "x", "t", "?">>
QDescribe    == <<"D", "e", "s", "c", "r", "i", "b", "e">>
QHowManyRead == <<"h", "o", "w", " ", "m", "a", "n", "y", " ", "t", "o", " ", "r", "e", "a", "d">>
QColour      == <<"C", "o", "l", "o", "u", "r">>
QReadTextColorCount ==
    <<"r", "e", "a", "d", " ", "T", "e", "x", "t", " ", "c", "o", "l", "o", "r", " ",
      "C", "o", "u", "n", "t">>

\* the query texts generateFallbackResponse is tried on
FallbackQueries ==
    { QEmpty, QColors, QHowMany, QCountColors, QColorText, QRead, QText, QDescribe,
      QHowManyRead, QColour, QReadTextColorCount }

\* generateFallbackResponse applied to a query text and an image count
applyFallback(imageCounts) ==
    /\ \E queryText \in FallbackQueries, imageCount \in imageCounts :
           generated' = [query |-> queryText, imageCount |-> imageCount,
                         text |-> generateFallbackResponse(queryText, imageCount)]
    /\ UNCHANGED <<client, posts, validated>>

\* images: [{ url, name }, ...] of a request body
EndpointImages(n) == [i \in 1..n |-> [url |-> DataUrl(FileA), name |-> FileA.name]]

\* a request: whether its body parses as JSON, and the object it parses to
Request(parses, json) == [parses |-> parses, json |-> json]

\* the requests that arrive at the endpoint: a body that is no JSON, bodies
\* without query or images, with an empty query or an empty images list, and
\* bodies with both
Requests ==
    { Request(FALSE, Null),
      Request(TRUE, [images |-> EndpointImages(1)]),
      Request(TRUE, [query |-> QColors]),
      Request(TRUE, [query |-> QEmpty, images |-> EndpointImages(2)]),
      Request(TRUE, [query |-> QColors, images |-> <<>>]),
      Request(TRUE, [query |-> QColors, images |-> EndpointImages(2)]),
      Request(TRUE, [query |-> QHowMany, images |-> EndpointImages(7)]),
      Request(TRUE, [query |-> QDescribe, images |-> EndpointImages(1)]) }

\* the texts the model provider answers with
ModelTexts == {<<"Image 1: A red barn.">>}

\* the exceptions the provider call and request.json() throw
ApiErrors == {<<"Incorrect API key provided">>, <<"Rate limit reached for gpt-4o">>}
BodyError == <<"Unexpected end of JSON input">>

\* NextResponse.json(body, { status })
NextResponseJson(body, status) == [status |-> status, body |-> body]

\* the precondition without the check of the length of images
badRequestUnlessEmptyList(json) ==
    \/ ~("query" \in DOMAIN json /\ json.query # <<>>)
    \/ ~("images" \in DOMAIN json)

\* !query || !images || images.length === 0
badRequest(json) ==
    \/ ~("query" \in DOMAIN json /\ json.query # <<>>)
    \/ ~("images" \in DOMAIN json)
    \/ Len(json.images) = 0

\* a request arrives: POST runs up to `await request.json()`
POST(arriving, max) ==
    /\ Len(posts) < max
    /\ \E request \in arriving :
           posts' = Append(posts, [request |-> request, pc |-> "request.json",
                                   generateText |-> 0, console |-> Null,
                                   response |-> Null])
    /\ UNCHANGED <<client, generated, validated>>

\* request.json() resolves: the precondition, then the call of the provider
requestJsonResolves ==
    \E i \in 1..Len(posts) :
        LET json == posts[i].request.json
        IN  /\ posts[i].pc = "request.json"
            /\ posts[i].request.parses
            /\ IF badRequest(json)
               THEN posts' = [posts EXCEPT
                        ![i].pc = "done",
                        ![i].response =
                            NextResponseJson([error |-> <<"Query and images are required">>],
                                             400)]
               ELSE posts' = [posts EXCEPT ![i].pc = "generateText",
                                           ![i].generateText = @ + 1]
            /\ UNCHANGED <<client, generated, validated>>

\* the outer catch answering as the precondition does
requestJsonRejectsBadRequest ==
    \E i \in 1..Len(posts) :
        /\ posts[i].pc = "request.json"
        /\ ~posts[i].request.parses
        /\ posts' = [posts EXCEPT
               ![i].pc = "done",
               ![i].console = <<"Error analyzing images:">> \o BodyError,
               ![i].response =
                   NextResponseJson([error |-> <<"Query and images are required">>], 400)]
        /\ UNCHANGED <<client, generated, validated>>

\* request.json() rejects: the outer catch
requestJsonRejects ==
    \E i \in 1..Len(posts) :
        /\ posts[i].pc = "request.json"
        /\ ~posts[i].request.parses
        /\ posts' = [posts EXCEPT
               ![i].pc = "done",
               ![i].console = <<"Error analyzing images:">> \o BodyError,
               ![i].response =
                   NextResponseJson([error |-> <<"Error analyzing images: ">> \o BodyError],
                                    500)]
        /\ UNCHANGED <<client, generated, validated>>

\* generateText resolves
generateTextResolves ==
    \E i \in 1..Len(posts), text \in ModelTexts :
        /\ posts[i].pc = "generateText"
        /\ posts' = [posts EXCEPT
               ![i].pc = "done",
               ![i].response = NextResponseJson([response |-> text], 200)]
        /\ UNCHANGED <<client, generated, validated>>

\* the provider called again when its call fails
generateTextRejectsAndRetries ==
    \E i \in 1..Len(posts), apiError \in ApiErrors :
        /\ posts[i].pc = "generateText"
        /\ posts' = [posts EXCEPT ![i].generateText = @ + 1]
        /\ UNCHANGED <<client, generated, validated>>

\* the fallback counting the images of every request received so far
generateTextRejectsCounting ==
    \E i \in 1..Len(posts), apiError \in ApiErrors :
        LET json == posts[i].request.json
            fallbackResponse ==
                generateFallbackResponse(json.query, Len(json.images) + Len(posts) - 1)
        IN  /\ posts[i].pc = "generateText"
            /\ posts' = [posts EXCEPT
                   ![i].pc = "done",
                   ![i].console = <<"[v0] OpenAI API failed, using fallback responses:">>
                                      \o apiError,
                   ![i].response = NextResponseJson([response |-> fallbackResponse], 200)]
            /\ UNCHANGED <<client, generated, validated>>

\* generateText rejects: catch (apiError)
generateTextRejects ==
    \E i \in 1..Len(posts), apiError \in ApiErrors :
        LET json == posts[i].request.json
            fallbackResponse == generateFallbackResponse(json.query, Len(json.images))
        IN  /\ posts[i].pc = "generateText"
            /\ posts' = [posts EXCEPT
                   ![i].pc = "done",
                   ![i].console = <<"[v0] OpenAI API failed, using fallback responses:">>
                                      \o apiError,
                   ![i].response = NextResponseJson([response |-> fallbackResponse], 200)]
            /\ UNCHANGED <<client, generated, validated>>

-----------------------------------------------------------------------------
(* Specifications *)

Init ==
    /\ images = <<>>
    /\ query = <<>>
    /\ messages = <<>>
    /\ isProcessing = FALSE
    /\ error = Null
    /\ upImages = <<>>
    /\ uploadError = Null
    /\ toasts = <<>>
    /\ uploads = {}
    /\ requests = <<>>
    /\ nextId = 0
    /\ posts = <<>>
    /\ generated = Null
    /\ validated = Null

\* user messages in the transcript
Sends == Len(SelectSeq(messages, LAMBDA m : m.type = "user"))

\* the page: BatchQueryChatbot with its ImageUpload
Next ==
    \/ handleFileInput(PageFileLists, PageIds, PageUploads)
    \/ handleDrop(PageFileLists, PageIds, PageUploads)
    \/ readerOnload
    \/ readerOnerror
    \/ clickRemove
    \/ clearAll
    \/ \E value \in Queries : onChange(value)
    \/ Sends < MaxSends /\ clickSend
    \/ Sends < MaxSends /\ handleKeyPress
    \/ fetchRejects
    \/ fetchResolves
    \/ jsonRejects
    \/ jsonResolves

Spec == Init /\ [][Next]_vars

\* ImageUpload on its own, with more images and overlapping uploads
NextUpload ==
    \/ handleFileInput(FileLists, MaxIds, MaxUploads)
    \/ handleDrop(FileLists, MaxIds, MaxUploads)
    \/ readerOnload
    \/ readerOnerror
    \/ clickRemove
    \/ clearAll

SpecUpload == Init /\ [][NextUpload]_vars

\* the page, on the batches and the queries that fail
NextFailures ==
    \/ handleFileInput(FailureFileLists, PageIds, PageUploads)
    \/ handleDrop(FailureFileLists, PageIds, PageUploads)
    \/ readerOnload
    \/ readerOnerror
    \/ clickRemove
    \/ clearAll
    \/ \E value \in FailureQueries : onChange(value)
    \/ Sends < MaxSends /\ clickSend
    \/ Sends < MaxSends /\ handleKeyPress
    \/ fetchRejects
    \/ fetchResolves
    \/ jsonRejects
    \/ jsonResolves

SpecFailures == Init /\ [][NextFailures]_vars

\* ImageUpload on its own, on batches of several files
NextBatch ==
    \/ handleFileInput(BatchLists, MaxIds, MaxUploads)
    \/ handleDrop(BatchLists, MaxIds, MaxUploads)
    \/ readerOnload
    \/ readerOnerror
    \/ clickRemove
    \/ clearAll

SpecBatch == Init /\ [][NextBatch]_vars

\* the analysis endpoint, serving requests concurrently
NextEndpoint ==
    \/ POST(Requests, MaxPosts)
    \/ requestJsonResolves
    \/ requestJsonRejects
    \/ generateTextResolves
    \/ generateTextRejects

SpecEndpoint == Init /\ [][NextEndpoint]_vars

\* generateFallbackResponse on its own
NextFallback == applyFallback(0..MaxImageCount)

SpecFallback == Init /\ [][NextFallback]_vars

\* validateFile on its own
NextValidate == applyValidate

SpecValidate == Init /\ [][NextValidate]_vars

\* the image lists removeImage is tried on: up to maxImages images with
\* different identifiers, in any order
HeldLists ==
    LET ids == UNION {{s \in [1..n -> 1..MaxIds] :
                          \A i, j \in 1..n : i # j => s[i] # s[j]} : n \in 0..maxImages}
    IN  {[i \in 1..Len(s) |->
             UploadedImage(s[i], IF s[i] % 2 = 1 THEN FileA ELSE FileB,
                           DataUrl(IF s[i] % 2 = 1 THEN FileA ELSE FileB))] : s \in ids}

\* removeImage on its own, tried on every identifier, held or not
InitRemove ==
    /\ upImages \in HeldLists
    /\ images = upImages
    /\ query = <<>>
    /\ messages = <<>>
    /\ isProcessing = FALSE
    /\ error = Null
    /\ uploadError = Null
    /\ toasts = <<>>
    /\ uploads = {}
    /\ requests = <<>>
    /\ nextId = MaxIds
    /\ posts = <<>>
    /\ generated = Null
    /\ validated = Null

NextRemove == \E id \in 1..MaxIds : removeImage(id)

SpecRemove == InitRemove /\ [][NextRemove]_vars

\* handleSendQuery on its own, tried on every query text and image list
InitSend ==
    /\ images \in SendImageLists
    /\ upImages = images
    /\ query \in SendQueries
    /\ messages = <<>>
    /\ isProcessing = FALSE
    /\ error = Null
    /\ uploadError = Null
    /\ toasts = <<>>
    /\ uploads = {}
    /\ requests = <<>>
    /\ nextId = 0
    /\ posts = <<>>
    /\ generated = Null
    /\ validated = Null

NextSend ==
    \/ Sends < MaxSends /\ clickSend
    \/ Sends < MaxSends /\ handleKeyPress
    \/ fetchRejects
    \/ fetchResolves
    \/ jsonRejects
    \/ jsonResolves

SpecSend == InitSend /\ [][NextSend]_vars

\* the same, every request in flight eventually succeeding or failing: the
\* promise of fetch settles, and so does the promise of response.json()
SpecSendFair ==
    /\ SpecSend
    /\ WF_vars(fetchRejects \/ fetchResolves)
    /\ WF_vars(jsonRejects \/ jsonResolves)

-----------------------------------------------------------------------------
(* Properties *)

Range(f) == {f[i] : i \in DOMAIN f}

Min(S) == CHOOSE x \in S : \A y \in S : x <= y

\* a step of handleSendQuery, from the button or the Enter key
SendStep == clickSend \/ handleKeyPress

\* C1: at most one query submission is in flight: a second request is never
\* issued while an earlier one has neither succeeded nor failed.
C1_OneInFlight == Len(requests) <= 1

\* a second submission is in flight after the first one has completed
C1_Witness == Len(requests) = 1 /\ Sends = 2

\* C2: after any sequence of upload batches, removals and clears, overlapping
\* batches included, the active image set holds at most 4 images.
C2_AtMostFour == Len(upImages) <= 4 /\ Len(images) <= 4

\* a batch has just filled the set to 4 while another batch awaits its encoding
C2_Witness ==
    /\ Len(upImages) = 4
    /\ uploads # {}
    /\ toasts # <<>> /\ toasts[1].title = "Upload Successful"

\* C3: an image accepted into the active set stays there until the user removes
\* it by its identifier or clears the set; no other step drops it.
C3_AcceptedStays ==
    [][\A i \in 1..Len(upImages) :
           (\A j \in 1..Len(upImages') : upImages'[j].id # upImages[i].id)
               => (clearAll \/ removeImage(upImages[i].id))]_vars

AllValid(files) == \A i \in 1..Len(files) : validateFile(files[i]) = Null

FilesOf(imgs) == [i \in 1..Len(imgs) |-> imgs[i].file]

\* the batches of one or more files that all pass validation
ValidLists == {files \in FileLists : Len(files) > 0 /\ AllValid(files)}

\* C4: a batch whose files all pass validation and all encode, and whose count
\* is at most 4 minus the number held when it is submitted, is taken up, and when
\* its last file is encoded all its files are added: the active set then has the
\* cardinality it had at submission plus the batch size.
C4_ValidBatchAdded ==
    [][/\ \A files \in ValidLists :
              (Len(files) <= 4 - Len(upImages) /\ handleFiles(files))
                  => \E u \in uploads' \ uploads :
                         u.files = files /\ u.images = upImages /\ u.k = 1
       /\ \A u \in uploads \ uploads' :
              (/\ u.k = Len(u.files)
               /\ u.unreadable = {}
               /\ AllValid(u.files)
               /\ resolveFileToBase64(u))
                  => /\ Len(upImages') = Len(u.images) + Len(u.files)
                     /\ FilesOf(SubSeq(upImages', Len(u.images) + 1, Len(upImages')))
                            = u.files
                     /\ images' = upImages']_vars

\* a batch of two files has been added to two held images
C4_Witness ==
    /\ Len(upImages) = 4
    /\ toasts = Toast("Upload Successful", <<"2", " image", "s", " uploaded successfully">>,
                      "default")

CapacityError(n) == <<"Can only upload ", DecStr(n), " more image", Plural(n)>>

\* C5: a batch whose file count exceeds the remaining capacity adds no file,
\* whether or not its files are valid: the active set is unchanged and a
\* capacity error is reported.
C5_OverCapacityRejected ==
    [][\A files \in FileLists :
           (Len(files) > 4 - Len(upImages) /\ handleFiles(files))
               => /\ upImages' = upImages
                  /\ images' = images
                  /\ uploads' = uploads
                  /\ uploadError' = CapacityError(4 - Len(upImages))]_vars

\* a batch of two or more files was refused with three images held
C5_Witness == Len(upImages) = 3 /\ uploadError = CapacityError(1)

InvalidIdx(files) == {i \in 1..Len(files) : validateFile(files[i]) # Null}

FailureReason(files, i) ==
    IF validateFile(files[i]) # Null THEN validateFile(files[i])
    ELSE <<"Failed to process ", files[i].name>>

\* the batches with a file that fails validation
FailingLists == {files \in FileLists : InvalidIdx(files) # {}}

\* the batch is refused as a whole: nothing is added, the reason of its first
\* failed file is shown, a notification counts the failed files
RefusedAsAWhole(files, failed) ==
    /\ upImages' = upImages
    /\ images' = images
    /\ uploadError' = FailureReason(files, Min(failed))
    /\ toasts' = Toast("Upload Error",
                       <<DecStr(Cardinality(failed)), " file", Plural(Cardinality(failed)),
                         " could not be uploaded">>, "destructive")

\* the batches that end while their files are being encoded
C6_EndsEncoding ==
    \A u \in uploads \ uploads' :
        ValidAfter(u.files, u.k) = 0
            => /\ (InvalidIdx(u.files) \cup u.unreadable # {} /\ resolveFileToBase64(u))
                      => RefusedAsAWhole(u.files, InvalidIdx(u.files) \cup u.unreadable)
               /\ rejectFileToBase64(u)
                      => RefusedAsAWhole(u.files,
                                         InvalidIdx(u.files) \cup u.unreadable \cup {u.k})

\* C6 as claimed: whenever at least one file of a batch fails validation or fails
\* to encode, the batch ends with nothing added, the first failure reason in
\* batch order as the upload error and a notification with the failure count.
C6_AnyFailureRefuses ==
    [][/\ \A files \in FailingLists :
              (uploads' = uploads /\ handleFiles(files))
                  => RefusedAsAWhole(files, InvalidIdx(files))
       /\ C6_EndsEncoding]_vars

\* C6, amended: the same for the batches whose file count does not exceed the
\* remaining capacity (a batch over capacity reports the capacity error instead,
\* and emits no notification).
C6_FailureWithinCapacityRefuses ==
    [][/\ \A files \in FailingLists :
              (/\ uploads' = uploads
               /\ Len(files) <= 4 - Len(upImages)
               /\ handleFiles(files))
                  => RefusedAsAWhole(files, InvalidIdx(files))
       /\ C6_EndsEncoding]_vars

\* a batch of three files, the first two invalid, was refused with images held
C6_Witness ==
    /\ Len(upImages) > 0
    /\ uploadError = <<"d.pdf", " is not a valid image file">>
    /\ toasts # <<>> /\ toasts[1].title = "Upload Error"
    /\ toasts[1].description[1] \in {"2", "3"}

\* C7: every image of the active set has a file of at most 10 MiB and a MIME
\* type of the allow-list.
C7_SizeAndType ==
    \A i \in 1..Len(upImages) :
        /\ upImages[i].file.size <= 10 * 1024 * 1024
        /\ upImages[i].file.type \in {TypeJpeg, TypeJpg, TypePng, TypeGif, TypeWebp}

\* an image of exactly 10 MiB is in the active set
C7_Witness == \E i \in 1..Len(upImages) : upImages[i].file.size = 10 * 1024 * 1024

\* C8: a send with a query whose trimmed length is below 3, or whose length is
\* above 500, fails validation: the transcript is unchanged, the in-flight flag
\* is not set and no request is issued.
C8_ShortOrLongRefused ==
    [][(SendStep /\ (Len(Trim(query)) < 3 \/ Len(query) > 500))
           => /\ messages' = messages
              /\ isProcessing' = isProcessing
              /\ requests' = requests]_vars

\* query validation as the orchestrator states it: not blank after trimming, at
\* least 3 and at most 500 characters
QueryValid(q) == Trim(q) # <<>> /\ Len(q) >= 3 /\ Len(q) <= 500

Oversized(imageList) ==
    {i \in 1..Len(imageList) : imageList[i].file.size > 10 * 1024 * 1024}

ImagesValid(imageList) ==
    Len(imageList) > 0 /\ Len(imageList) <= 4 /\ Oversized(imageList) = {}

QueryErrors ==
    { <<"Please enter a question about your images">>,
      <<"Query must be at least 3 characters long">>,
      <<"Query must be less than 500 characters">> }

\* C9: a send with an image list that is empty, longer than 4 or holds an image
\* over 10 MiB only sets the inline error: transcript, in-flight flag, query
\* text and image list are unchanged and no request is issued.  With a valid
\* query the error is the image error (naming every oversized image when that is
\* the reason); with an invalid query the query error is the one shown.
C9_ImageErrorOnly ==
    [][(SendStep /\ ~ImagesValid(images))
           => /\ UNCHANGED <<messages, isProcessing, query, images, upImages, requests>>
              /\ error' # Null
              /\ QueryValid(query)
                     => /\ error' \notin QueryErrors
                        /\ (Len(images) \in 1..4)
                               => \A i \in Oversized(images) :
                                      images[i].name \in Range(error')
              /\ ~QueryValid(query) => error' \in QueryErrors]_vars

\* a valid query was sent with two oversized images: both are named
C9_Witness ==
    /\ QueryValid(query)
    /\ Cardinality(Oversized(images)) = 2
    /\ error # Null /\ error[1] = "Image(s) too large: "
    /\ messages = <<>> /\ requests = <<>>

\* C10: a send that passes validation appends exactly one user entry holding
\* the query text and the image list of that moment, sets the in-flight flag and
\* issues exactly one request, whose query is the entry's text and whose images
\* are the entry's images (encoded data and name) in the same order.
C10_SendAppendsAndIssues ==
    [][(SendStep /\ QueryValid(query) /\ ImagesValid(images))
           => /\ messages' = Append(messages,
                                    [type |-> "user", content |-> query, images |-> images])
              /\ isProcessing' = TRUE
              /\ Len(requests') = Len(requests) + 1
              /\ SubSeq(requests', 1, Len(requests)) = requests
              /\ LET body == requests'[Len(requests')].body
                 IN  /\ body.query = query
                     /\ Len(body.images) = Len(images)
                     /\ \A i \in 1..Len(images) :
                            body.images[i] = [url |-> images[i].url, name |-> images[i].name]]_vars

\* a request carrying four images is in flight
C10_Witness ==
    /\ isProcessing
    /\ Len(requests) = 1 /\ requests[1].pc = "fetch"
    /\ Len(requests[1].body.images) = 4
    /\ messages[Len(messages)].type = "user"

\* request i leaves the requests in flight
Completes(i) == requests' = RemoveAt(requests, i)

\* exactly one bot entry with the text is appended and the query input is cleared
BotAppended(text) ==
    /\ messages' = Append(messages, [type |-> "bot", content |-> text, images |-> Null])
    /\ query' = <<>>

\* exactly one error entry with the message is appended and the query input is
\* left as it is
ErrorAppended(message) ==
    /\ messages' = Append(messages, [type |-> "error", content |-> message, images |-> Null])
    /\ query' = query

\* the message of a response whose status is not a success
FailureMessage(r) ==
    IF ~r.valid THEN JsonError.message
    ELSE IF r.error # Null THEN r.error
    ELSE <<"Failed to analyze images">>

\* between the send and the completion of a request nothing is appended
OnlyCompletionAppends ==
    Len(requests') = Len(requests) => messages' = messages

\* C11 as claimed: a request that completes appends exactly one entry: a bot
\* entry with the returned text, the query cleared, if the response status is a
\* success; an error entry with the failure message, the query unchanged, if
\* fetch throws or the response status is not a success.
C11_SuccessStatusAppendsBot ==
    [][/\ OnlyCompletionAppends
       /\ \A i \in 1..Len(requests) :
              Completes(i) =>
                  IF requests[i].pc = "fetch"
                  THEN \E err \in FetchErrors : ErrorAppended(err.message)
                  ELSE IF requests[i].response.ok
                  THEN BotAppended(requests[i].response.response)
                  ELSE ErrorAppended(FailureMessage(requests[i].response))]_vars

\* C11, amended: the bot entry is appended if the response status is a success
\* and its body can be read; the error entry if fetch throws, the status is not
\* a success or the body of the response cannot be parsed.
C11_CompletionAppendsOne ==
    [][/\ OnlyCompletionAppends
       /\ \A i \in 1..Len(requests) :
              Completes(i) =>
                  IF requests[i].pc = "fetch"
                  THEN \E err \in FetchErrors : ErrorAppended(err.message)
                  ELSE IF requests[i].response.ok /\ requests[i].response.valid
                  THEN BotAppended(requests[i].response.response)
                  ELSE ErrorAppended(FailureMessage(requests[i].response))]_vars

\* a request has failed on a response body that is no JSON, the query kept
C11_Witness ==
    /\ Len(messages) = 2
    /\ messages[2] = [type |-> "error", content |-> JsonError.message, images |-> Null]
    /\ query = QColors
    /\ requests = <<>>

\* C12: whenever the in-flight flag is set it is eventually cleared, the
\* request eventually succeeding or failing; and every way a request ends
\* (success, non-success response, thrown exception, unparsable body) leaves
\* the flag false.
C12_FlagEventuallyCleared ==
    /\ isProcessing ~> ~isProcessing
    /\ [][\A i \in 1..Len(requests) : Completes(i) => isProcessing' = FALSE]_vars

\* the flag is clear again after a request that succeeded
C12_Witness ==
    /\ ~isProcessing
    /\ Len(messages) = 2
    /\ messages[2].type = "bot"

\* C13: the transcript is append-only: every step leaves the entries already
\* there unchanged in content, kind, images and position, and only adds entries
\* at the end; removing or clearing images does not change the images of an
\* earlier user entry.
C13_AppendOnly ==
    [][/\ Len(messages') >= Len(messages)
       /\ SubSeq(messages', 1, Len(messages)) = messages]_vars

\* the images were cleared after a send: the user entry still holds its image,
\* and an entry was appended after it
C13_Witness ==
    /\ Len(messages) = 2
    /\ messages[1].type = "user"
    /\ Len(messages[1].images) = 1
    /\ images = <<>>
    /\ toasts = Toast("Images Cleared", <<"All images have been removed">>, "default")

\* the query or the images of a parsed body are absent or empty
Lacking(json) ==
    \/ "query" \notin DOMAIN json
    \/ json.query = <<>>
    \/ "images" \notin DOMAIN json
    \/ json.images = <<>>

\* C14: a request whose query is absent or empty, or whose images are absent
\* or empty, is answered with HTTP 400 and an error body, and the model
\* provider is not called for it.
C14_BadRequest ==
    \A i \in 1..Len(posts) :
        (posts[i].request.parses /\ Lacking(posts[i].request.json))
            => /\ posts[i].generateText = 0
               /\ posts[i].pc \in {"request.json", "done"}
               /\ posts[i].pc = "done"
                      => /\ posts[i].response.status = 400
                         /\ DOMAIN posts[i].response.body = {"error"}
                         /\ posts[i].response.body.error # <<>>

\* a request with a query and an empty images list has been answered
C14_Witness ==
    \E i \in 1..Len(posts) :
        /\ posts[i].request = Request(TRUE, [query |-> QColors, images |-> <<>>])
        /\ posts[i].pc = "done"

\* C15: for a request that passes the precondition the model provider is
\* called exactly once and never again; if the call fails the answer is no
\* error but the success-shaped {response: fallback(query, number of images)}.
C15_OneCallThenFallback ==
    \A i \in 1..Len(posts) :
        LET json == posts[i].request.json
        IN  (posts[i].request.parses /\ ~Lacking(json))
                => /\ posts[i].generateText = IF posts[i].pc = "request.json" THEN 0 ELSE 1
                   /\ posts[i].pc = "done"
                          => /\ posts[i].response.status = 200
                             /\ DOMAIN posts[i].response.body = {"response"}
                             /\ posts[i].console # Null
                                    => posts[i].response.body.response
                                           = generateFallbackResponse(json.query,
                                                                      Len(json.images))

\* the provider call of a request with "What colors?" and two images has
\* failed and the request has been answered with the fallback text
C15_Witness ==
    \E i \in 1..Len(posts) :
        /\ posts[i].pc = "done"
        /\ posts[i].console # Null
        /\ posts[i].response.status = 200
        /\ posts[i].request.json = [query |-> QColors, images |-> EndpointImages(2)]

\* C16: when the endpoint fails for another reason than the model call (the
\* request body cannot be parsed) it answers with HTTP 500 and an error body
\* carrying a message, and the model provider is not called.
C16_ServerError ==
    \A i \in 1..Len(posts) :
        ~posts[i].request.parses
            => /\ posts[i].generateText = 0
               /\ posts[i].pc \in {"request.json", "done"}
               /\ posts[i].pc = "done"
                      => /\ posts[i].response.status = 500
                         /\ DOMAIN posts[i].response.body = {"error"}
                         /\ Len(posts[i].response.body.error) > 1
                         /\ posts[i].response.body.error[1] = "Error analyzing images: "

\* a request whose body is no JSON has been answered
C16_Witness ==
    \E i \in 1..Len(posts) :
        /\ ~posts[i].request.parses
        /\ posts[i].pc = "done"
        /\ posts[i].response.status = 500

\* the pieces of a text before its first blank-line separator, and those after it
UpToSeparator(pieces) ==
    IF \E k \in 1..Len(pieces) : pieces[k] = "\n\n"
    THEN SubSeq(pieces, 1, Min({k \in 1..Len(pieces) : pieces[k] = "\n\n"}) - 1)
    ELSE pieces

RECURSIVE Lines(_)
\* the lines of a text: what its blank-line separators separate
Lines(pieces) ==
    IF pieces = <<>> THEN <<>>
    ELSE LET first == UpToSeparator(pieces)
         IN  IF Len(first) = Len(pieces) THEN <<first>>
             ELSE <<first>> \o Lines(SubSeq(pieces, Len(first) + 2, Len(pieces)))

\* the lines of a generated text, the closing note left out
ImageLines(text) == Lines(SubSeq(text, 1, Len(text) - 1))

\* what follows "Image i: " on line i in each branch, the lists indexed from 0
\* by i mod 5
CyclingContents(i) ==
    { <<"I can see ", DecStr(counts[(i % 5) + 1]), " items in this image.">>,
      <<"The dominant colors are ", colors[(i % 5) + 1], ".">>,
      <<descriptions[(i % 5) + 1]>> }

FixedContent ==
    <<"I can detect some text elements, but would need a valid API connection for detailed text recognition.">>

\* C17: fallback(query, imageCount) has exactly imageCount lines, line i
\* starting with "Image i: ", in ascending order; in the cycling branches the
\* content of line i is the element i mod 5 of the branch's list: "How many
\* items?" with 7 images has index 1 on line 6, "What colors?" has "Image 1: The
\* dominant colors are warm earth tones." as line 1.
C17_FallbackLines ==
    generated # Null =>
        LET lines == ImageLines(generated.text)
        IN  /\ Len(lines) = generated.imageCount
            /\ \A i \in 1..Len(lines) :
                   /\ SubSeq(lines[i], 1, 3) = <<"Image ", DecStr(i), ": ">>
                   /\ SubSeq(lines[i], 4, Len(lines[i]))
                          \in CyclingContents(i) \cup {FixedContent}
            /\ (generated.query = QHowMany /\ generated.imageCount = 7)
                   => lines[6] = <<"Image ", "6", ": ", "I can see ", "5",
                                   " items in this image.">>
            /\ (generated.query = QColors /\ generated.imageCount >= 1)
                   => lines[1] = <<"Image ", "1", ": ", "The dominant colors are ",
                                   "warm earth tones", ".">>

\* the generator has been applied to "How many items?" and 7 images
C17_Witness ==
    /\ generated # Null
    /\ generated.query = QHowMany
    /\ generated.imageCount = 7
    /\ Len(ImageLines(generated.text)) = 7

\* the identifiers of an image list, in its order
IdsOf(imgs) == [i \in 1..Len(imgs) |-> imgs[i].id]

\* C18: removing an identifier that is in the active set takes exactly that
\* image out: the count decreases by 1 and the other images keep their order;
\* removing an identifier that is not in the active set leaves it unchanged.
C18_RemoveExactlyOne ==
    [][\A id \in 1..MaxIds :
           removeImage(id) =>
               /\ images' = upImages'
               /\ IF id \in Range(IdsOf(upImages))
                  THEN /\ Len(upImages') = Len(upImages) - 1
                       /\ \E k \in 1..Len(upImages) :
                              /\ upImages[k].id = id
                              /\ upImages' = SubSeq(upImages, 1, k - 1)
                                                 \o SubSeq(upImages, k + 1, Len(upImages))
                  ELSE upImages' = upImages]_vars

\* the second of four images has been removed
C18_Witness ==
    /\ IdsOf(upImages) = <<1, 3, 4>>
    /\ toasts = Toast("Image Removed", <<"Image has been removed from upload">>, "default")
    /\ uploads = {}
    /\ nextId = MaxIds

\* C19: clearing the images empties the active set, whose aggregate byte size
\* is then 0, and leaves the transcript, the query text and the in-flight flag
\* as they are, also while a query is in flight.
C19_ClearEmptiesOnlyImages ==
    [][clearAll =>
           /\ upImages' = <<>>
           /\ images' = <<>>
           /\ totalSize(upImages') = 0
           /\ UNCHANGED <<messages, query, isProcessing, requests>>]_vars

\* the images were cleared while a query is in flight
C19_Witness ==
    /\ isProcessing
    /\ Len(requests) = 1
    /\ upImages = <<>>
    /\ images = <<>>
    /\ query # <<>>
    /\ toasts = Toast("Images Cleared", <<"All images have been removed">>, "default")

\* a batch is rejected at once: it exceeds the remaining capacity, or none of
\* its files passes validation
RejectedAtOnce(files) ==
    /\ uploads' = uploads
    /\ Len(files) > 4 - Len(upImages) \/ InvalidIdx(files) # {}
    /\ handleFiles(files)

\* a batch is rejected when its last encoding ends: one of its files failed
\* validation or encoding
RejectedAtEnd(u) ==
    /\ ValidAfter(u.files, u.k) = 0
    /\ \/ InvalidIdx(u.files) \cup u.unreadable # {} /\ resolveFileToBase64(u)
       \/ rejectFileToBase64(u)

\* a send fails validation: it issues no request
SendRefused == SendStep /\ requests' = requests

\* request i fails: fetch throws, the status is not a success or the body is
\* not JSON
RequestFails(i) ==
    /\ Completes(i)
    /\ \/ requests[i].pc = "fetch"
       \/ ~requests[i].response.ok
       \/ ~requests[i].response.valid

\* C20: every failure on the client leaves a visible trace: a rejected upload
\* batch sets the upload error, a send that fails validation sets the inline
\* error, a failed request appends an error entry to the transcript.
C20_FailuresLeaveATrace ==
    [][/\ \A files \in FailureFileLists : RejectedAtOnce(files) => uploadError' # Null
       /\ \A u \in uploads \ uploads' : RejectedAtEnd(u) => uploadError' # Null
       /\ SendRefused => error' # Null
       /\ \A i \in 1..Len(requests) :
              RequestFails(i)
                  => /\ Len(messages') = Len(messages) + 1
                     /\ messages'[Len(messages')].type = "error"
                     /\ messages'[Len(messages')].content # <<>>]_vars

\* a request has failed and, after it, a batch was rejected for capacity
C20_Witness ==
    /\ Len(messages) = 2
    /\ messages[2].type = "error"
    /\ uploadError = CapacityError(3)

\* C21: after every completed mutation of the active set (accepted batch,
\* removal, clear) the list of the page equals the list of ImageUpload, same
\* images in the same order; a rejected batch changes neither.
C21_PageHoldsActiveSet ==
    /\ [](images = upImages)
    /\ [][/\ \A files \in BatchLists :
                  RejectedAtOnce(files) => UNCHANGED <<images, upImages>>
           /\ \A u \in uploads \ uploads' :
                  RejectedAtEnd(u) => UNCHANGED <<images, upImages>>]_vars

\* two images are held, in the order of their upload, and a batch with a file
\* that fails validation or encoding has just been rejected
C21_Witness ==
    /\ Len(upImages) = 2
    /\ images = upImages
    /\ upImages[1].id < upImages[2].id
    /\ toasts # <<>> /\ toasts[1].title = "Upload Error"

\* character c is letter k, in either case
SameLetter(c, k) == c = k \/ \E j \in 1..26 : Alphabet[j] = k /\ Capitals[j] = c

\* the query text contains the keyword, letter case ignored
Mentions(q, key) ==
    \E i \in 0..(Len(q) - Len(key)) : \A j \in 1..Len(key) : SameLetter(q[i + j], key[j])

\* the branch a line of a generated text comes from
BranchOf(line) ==
    IF Len(line) = 6 /\ line[4] = "I can see " /\ line[6] = " items in this image."
    THEN "count"
    ELSE IF Len(line) = 6 /\ line[4] = "The dominant colors are " /\ line[6] = "."
    THEN "color"
    ELSE IF SubSeq(line, 4, Len(line)) = FixedContent
    THEN "text"
    ELSE IF Len(line) = 4 /\ \E k \in 1..5 : line[4] = descriptions[k]
    THEN "description"
    ELSE "none"

\* the branch the keywords of a query text select, by precedence
BranchFor(q) ==
    IF Mentions(q, KeyCount) \/ Mentions(q, KeyHowMany) THEN "count"
    ELSE IF Mentions(q, KeyColor) THEN "color"
    ELSE IF Mentions(q, KeyText) \/ Mentions(q, KeyRead) THEN "text"
    ELSE "description"

\* C22: the generator picks its branch by keyword precedence, letter case
\* ignored: "count" or "how many" gives the count list even with "color", "text"
\* or "read"; otherwise "color" gives the palette list even with "text" or
\* "read"; otherwise "text" or "read" gives the same fixed disclaimer on every
\* line; otherwise the generic descriptions.
C22_KeywordPrecedence ==
    generated # Null =>
        LET lines == ImageLines(generated.text)
        IN  /\ \A i \in 1..Len(lines) : BranchOf(lines[i]) = BranchFor(generated.query)
            /\ BranchFor(generated.query) = "text"
                   => \A i \in 1..Len(lines) : SubSeq(lines[i], 4, Len(lines[i])) = FixedContent

\* the generator has been applied to "COLOR of the text" and several images: its
\* lines come from the palette list
C22_Witness ==
    /\ generated # Null
    /\ generated.query = QColorText
    /\ generated.imageCount = 3
    /\ \A i \in 1..3 : BranchOf(ImageLines(generated.text)[i]) = "color"

\* the provider was called for the invocation and its call failed
ProviderFailed(p) == p.generateText = 1 /\ p.console # Null /\ p.request.parses

\* what an invocation has met by itself: its request, and whether request.json()
\* or the provider call has failed
Met(p) == <<p.request, p.generateText, p.console = Null>>

\* C23: the endpoint keeps no state between invocations: under any interleaving
\* of concurrent requests a step of one invocation leaves the others as they
\* are, finished invocations that met the same request and the same outcome of
\* their own provider call have the same response unless the provider answered
\* them, and two requests with identical bodies whose provider calls both fail
\* receive identical responses.
C23_Stateless ==
    /\ [](\A i, j \in 1..Len(posts) :
              (posts[i].pc = "done" /\ posts[j].pc = "done"
                  /\ posts[i].request = posts[j].request)
                  => /\ (ProviderFailed(posts[i]) /\ ProviderFailed(posts[j]))
                            => posts[i].response = posts[j].response
                     /\ (Met(posts[i]) = Met(posts[j])
                            /\ posts[i].response # posts[j].response)
                            => /\ posts[i].response.body.response \in ModelTexts
                               /\ posts[j].response.body.response \in ModelTexts)
    /\ [][\A i \in 1..Len(posts) :
              posts'[i] # posts[i]
                  => /\ \A j \in 1..Len(posts) : j # i => posts'[j] = posts[j]
                     /\ posts'[i].request = posts[i].request]_vars

\* two requests with the same body have both been answered with the fallback
\* text, the provider having failed in two different ways
C23_Witness ==
    /\ Len(posts) = 2
    /\ posts[1].request = Request(TRUE, [query |-> QHowMany, images |-> EndpointImages(7)])
    /\ posts[2].request = posts[1].request
    /\ posts[1].pc = "done" /\ posts[2].pc = "done"
    /\ ProviderFailed(posts[1]) /\ ProviderFailed(posts[2])
    /\ posts[1].console # posts[2].console
    /\ posts[1].response = posts[2].response

\* the MIME type does not begin with the image category
NotAnImageType(type) == Len(type) < 6 \/ \E k \in 1..6 : type[k] # ImagePrefix[k]

\* the five MIME types of the allow-list
AllowList == {TypeJpeg, TypeJpg, TypePng, TypeGif, TypeWebp}

\* C24: validateFile accepts a file exactly when its MIME type is one of
\* image/jpeg, image/jpg, image/png, image/gif, image/webp and its size is at
\* most 10 * 1024 * 1024 bytes, that size included; for a rejected file the
\* reason is that of the first failing check in the order: not an image type,
\* too large, unsupported format.
C24_ValidateFileExact ==
    validated # Null =>
        LET file == validated.file
            reason == validated.validationError
        IN  /\ reason = Null <=> (file.type \in AllowList /\ file.size <= 10485760)
            /\ reason # Null =>
                   IF NotAnImageType(file.type)
                   THEN reason = <<file.name, " is not a valid image file">>
                   ELSE IF file.size > 10485760
                   THEN Len(reason) = 4 /\ reason[1] = file.name /\ reason[2] = " is too large ("
                   ELSE reason = <<file.name,
                                   " format not supported. Please use JPG, PNG, GIF, or WebP">>

\* an image of an unsupported format that is also too large has been refused
\* for its size
C24_Witness ==
    /\ validated # Null
    /\ validated.file.type = TypeBmp
    /\ validated.file.size = 11 * 1024 * 1024
    /\ validated.validationError = <<"photo", " is too large (", "11.0", "MB). Maximum size is 10MB">>

\* the identifiers of the images of a list
IdSet(imgs) == {imgs[i].id : i \in 1..Len(imgs)}

\* the image with this identifier is not in the active set and no suspended
\* batch is encoding it or has encoded it: it was removed or cleared, or its
\* batch was rejected
Gone(id) ==
    /\ id \notin IdSet(upImages)
    /\ \A u \in uploads : u.id # id /\ id \notin IdSet(u.newImages)

\* C25: an image that was removed by identifier or cleared never reappears in
\* the active set unless it is uploaded again, under a new identifier, in a
\* batch submitted after the removal; also when the removal happens while an
\* earlier batch awaits its encoding and commits afterwards.
C25_RemovedNeverReappears ==
    [][\A id \in 1..nextId : Gone(id) => id \notin IdSet(upImages')]_vars

\* C26: in every reachable state the transcript is a sequence of exchanges:
\* every bot or error entry is immediately preceded by a user entry, no two
\* user entries are adjacent, only user entries carry images, and the in-flight
\* flag is set exactly when the last entry of the transcript is a user entry.
C26_Exchanges ==
    /\ \A k \in 1..Len(messages) :
           /\ messages[k].type \in {"user", "bot", "error"}
           /\ messages[k].type \in {"bot", "error"}
                  => k > 1 /\ messages[k - 1].type = "user"
           /\ messages[k].type = "user"
                  => k = 1 \/ messages[k - 1].type # "user"
           /\ messages[k].type # "user" => messages[k].images = Null
    /\ isProcessing <=> (messages # <<>> /\ messages[Len(messages)].type = "user")

\* a second exchange is in flight after a first one that ended with an error
\* entry: only the user entries carry images
C26_Witness ==
    /\ Len(messages) = 3
    /\ messages[1].type = "user" /\ messages[1].images # Null
    /\ messages[2].type = "error"
    /\ messages[3].type = "user" /\ messages[3].images # Null
    /\ isProcessing
====
